---- MODULE Spec2Model ----
(***************************************************************************)
(* A model of p3d_process / p3d_process_n (src/src/lib.rs): one call of    *)
(* the pipeline  load -> mesh build -> alignment -> slicing -> scoring.    *)
(*                                                                         *)
(* The geometry libraries (obj, gltf, tri_mesh, cgmath) and the modules    *)
(* algo_grid / contour / polyline are collaborators of lib.rs: each of     *)
(* their calls is a step whose outcome (parse error, build error,          *)
(* singular matrix, extents, contour length) is drawn from a small set.    *)
(* f64 values are exact rationals <<num, den>>; a zero denominator stands  *)
(* for the non-finite result of a division by 0.0.                         *)
(***************************************************************************)
EXTENDS Integers, Sequences, FiniteSets, TLC

VARIABLES
    file_type,      \* parameter file_type : InputFileType
    algo,           \* parameter algo : AlgoType
    depth,          \* parameter depth : usize
    par1,           \* parameter par1 : i16 (grid_size)
    par2,           \* parameter par2 : i16 (n_sections)
    trans,          \* parameter trans : Option<[u8;4]>
    input,          \* parameter input : &[u8], by what it parses to
    pc,             \* position in p3d_process_n
    model_vertices, \* local model_vertices : Vec<f64>
    model_indices,  \* local model_indices : Vec<u32>
    mesh,           \* local mesh: the mutations applied to it so far
    ext,            \* locals (v_min, v_max)
    step,           \* local step : f64
    n,              \* loop variable n of the slice loop
    centers,        \* local centers : Vec<Vec<Vec2>>
    sects,          \* the slicer calls made so far, in call order
    calls,          \* the stages entered so far, in order
    result          \* the value returned

vars == << file_type, algo, depth, par1, par2, trans, input, pc,
           model_vertices, model_indices, mesh, ext, step, n, centers,
           sects, calls, result >>

params == << file_type, algo, depth, par1, par2, trans, input >>

----------------------------------------------------------------------------
(* Bounds of the model *)

MaxSections == 3        \* largest n_sections tried
MaxNegSections == 2     \* n_sections goes down to -MaxNegSections
MaxPrims == 3           \* primitives in a glTF document, over all meshes
MaxContourLen == 1      \* points of a contour

(* Program constants *)

DefaultDepth == 10

----------------------------------------------------------------------------
(* Enumerations *)

AlgoType == {"Grid2d", "Grid2dV2", "Grid2dV3", "Grid2dV3a", "Spectr"}

InputFileType == {"Obj", "Gltf", "Glb"}

P3DError == {"InvalidObject", "MeshError", "MathError", "UnsupportedFileType",
             "GltfError"}

----------------------------------------------------------------------------
(* f64 as exact rationals *)

Rat(a) == << a, 1 >>

RatAdd(a, b) == << a[1] * b[2] + b[1] * a[2], a[2] * b[2] >>

RatSub(a, b) == << a[1] * b[2] - b[1] * a[2], a[2] * b[2] >>

RatMul(a, b) == << a[1] * b[1], a[2] * b[2] >>

\* a / b; the sign is kept in the numerator, a zero divisor gives den = 0
RatDiv(a, b) ==
    IF b[1] >= 0 THEN << a[1] * b[2], a[2] * b[1] >>
                 ELSE << (0 - a[1]) * b[2], a[2] * (0 - b[1]) >>

RatFinite(a) == a[2] > 0

RatEq(a, b) == RatFinite(a) /\ RatFinite(b) /\ a[1] * b[2] = b[1] * a[2]

RatLess(a, b) == RatFinite(a) /\ RatFinite(b) /\ a[1] * b[2] < b[1] * a[2]

----------------------------------------------------------------------------
(* The input bytes, by what the parsers make of them *)

Garbage == [kind |-> "garbage", vertices |-> << >>, indices |-> << >>, meshes |-> << >>]

\* an OBJ file: model.vertices (their positions) and model.indices
ObjFile == [kind |-> "obj",
            vertices |-> << <<0, 0, 0>>, <<1, 0, 0>>, <<0, 1, 0>> >>,
            indices |-> << 0, 1, 2 >>,
            meshes |-> << >>]

\* what a primitive's reader gives: "none" has neither attribute
PrimKinds == {"none", "pos", "idx", "both"}

\* non-empty sequences of primitive kinds, at most k long
MeshShapes(k) == UNION { [1..l -> PrimKinds] : l \in 1..k }

\* documents (sequences of meshes) with at most k primitives in all
RECURSIVE DocShapes(_)
DocShapes(k) ==
    IF k = 0 THEN { << >> }
    ELSE { << >> } \cup
         UNION { { << m >> \o d : d \in DocShapes(k - Len(m)) } : m \in MeshShapes(k) }

\* primitive p of mesh m: its position and its index tell where they come from
Primitive(kind, m, p) ==
    [positions |-> IF kind \in {"pos", "both"} THEN << << m, p, 0 >> >> ELSE << >>,
     indices   |-> IF kind \in {"idx", "both"} THEN << 10 * m + p >> ELSE << >>]

Document(shape) ==
    [m \in 1..Len(shape) |-> [p \in 1..Len(shape[m]) |-> Primitive(shape[m][p], m, p)]]

GltfFile(shape) == [kind |-> "gltf", vertices |-> << >>, indices |-> << >>,
                    meshes |-> Document(shape)]

GltfFiles(k) == { GltfFile(s) : s \in DocShapes(k) }

----------------------------------------------------------------------------
(* Results *)

Pending == [tag |-> "Pending"]

Ok(v) == [tag |-> "Ok", value |-> v]

Err(e, m) == [tag |-> "Err", error |-> e, msg |-> m]

\* the words of a message: does it hold the words of marker, in a row
Contains(msg, marker) ==
    \E i \in 0..(Len(msg) - Len(marker)) :
        \A j \in 1..Len(marker) : msg[i + j] = marker[j]

NoValidGeometry == << "No", "valid", "geometry" >>

----------------------------------------------------------------------------
(* The loader, lines 69-141 *)

load_obj(in) ==
    IF in.kind = "obj" THEN [ok |-> TRUE, vertices |-> in.vertices, indices |-> in.indices]
                       ELSE [ok |-> FALSE]

from_slice(in) ==
    IF in.kind = "gltf" THEN [ok |-> TRUE, meshes |-> in.meshes]
                        ELSE [ok |-> FALSE]

\* flat_map over the positions: three coordinates each (f32 -> f64 is exact)
RECURSIVE Flatten(_)
Flatten(ps) ==
    IF ps = << >> THEN << >>
    ELSE << Head(ps)[1], Head(ps)[2], Head(ps)[3] >> \o Flatten(Tail(ps))

HasBoth(acc) == acc.positions # << >> /\ acc.indices # << >>

\* one primitive: extend positions, extend indices (a missing attribute adds nothing)
ReadPrimitive(acc, prim) ==
    [positions |-> acc.positions \o prim.positions,
     indices   |-> acc.indices \o prim.indices]

\* the inner loop over mesh.primitives(), with its break
RECURSIVE ScanPrimitives(_, _)
ScanPrimitives(prims, acc) ==
    IF prims = << >> THEN acc
    ELSE LET a == ReadPrimitive(acc, Head(prims))
         IN  IF HasBoth(a) THEN a ELSE ScanPrimitives(Tail(prims), a)

\* the outer loop over gltf_data.meshes(), with its break
RECURSIVE ScanMeshes(_, _)
ScanMeshes(meshes, acc) ==
    IF meshes = << >> THEN acc
    ELSE LET a == ScanPrimitives(Head(meshes), acc)
         IN  IF HasBoth(a) THEN a ELSE ScanMeshes(Tail(meshes), a)

CollectGeometry(meshes) == ScanMeshes(meshes, [positions |-> << >>, indices |-> << >>])

\* a variant that takes an unparsable file for an empty model
ObjArm_SwallowError(in) ==
    LET model == load_obj(in)
    IN  IF ~model.ok THEN [ok |-> TRUE, vertices |-> << >>, indices |-> << >>]
        ELSE [ok |-> TRUE, vertices |-> Flatten(model.vertices), indices |-> model.indices]

ObjArm(in) ==
    LET model == load_obj(in)
    IN  IF ~model.ok THEN [ok |-> FALSE, err |-> Err("InvalidObject", << "ObjError" >>)]
        ELSE [ok |-> TRUE, vertices |-> Flatten(model.vertices), indices |-> model.indices]

GltfArm(in) ==
    LET gltf_data == from_slice(in)
    IN  IF ~gltf_data.ok
        THEN [ok |-> FALSE,
              err |-> Err("GltfError", << "glTF", "parsing", "error:", "e" >>)]
        ELSE LET c == CollectGeometry(gltf_data.meshes)
             IN  IF c.positions = << >> \/ c.indices = << >>
                 THEN [ok |-> FALSE,
                       err |-> Err("GltfError", << "No", "valid", "geometry",
                                   "(vertices/indices)", "found", "in", "glTF", "file" >>)]
                 ELSE [ok |-> TRUE, vertices |-> Flatten(c.positions),
                       indices |-> c.indices]

\* a variant whose check asks for both lists to be empty
GlbArm_BothEmpty(in) ==
    LET gltf_data == from_slice(in)
    IN  IF ~gltf_data.ok
        THEN [ok |-> FALSE,
              err |-> Err("GltfError", << "GLB", "parsing", "error:", "e" >>)]
        ELSE LET c == CollectGeometry(gltf_data.meshes)
             IN  IF c.positions = << >> /\ c.indices = << >>
                 THEN [ok |-> FALSE,
                       err |-> Err("GltfError", << "No", "valid", "geometry",
                                   "(vertices/indices)", "found", "in", "GLB", "file" >>)]
                 ELSE [ok |-> TRUE, vertices |-> Flatten(c.positions),
                       indices |-> c.indices]

GlbArm(in) ==
    LET gltf_data == from_slice(in)
    IN  IF ~gltf_data.ok
        THEN [ok |-> FALSE,
              err |-> Err("GltfError", << "GLB", "parsing", "error:", "e" >>)]
        ELSE LET c == CollectGeometry(gltf_data.meshes)
             IN  IF c.positions = << >> \/ c.indices = << >>
                 THEN [ok |-> FALSE,
                       err |-> Err("GltfError", << "No", "valid", "geometry",
                                   "(vertices/indices)", "found", "in", "GLB", "file" >>)]
                 ELSE [ok |-> TRUE, vertices |-> Flatten(c.positions),
                       indices |-> c.indices]

LoadGeometry(ft, in) ==
    CASE ft = "Obj"  -> ObjArm(in)
      [] ft = "Gltf" -> GltfArm(in)
      [] ft = "Glb"  -> GlbArm(in)

----------------------------------------------------------------------------
(* i16 as usize on a 64-bit target: four 16-bit limbs, least significant   *)
(* first; the cast sign-extends                                            *)

\* a variant that zero-extends (as u16 as usize)
AsUsize_ZeroExtend(x) ==
    IF x >= 0 THEN << x, 0, 0, 0 >>
              ELSE << x + 65536, 0, 0, 0 >>

AsUsize(x) ==
    IF x >= 0 THEN << x, 0, 0, 0 >>
              ELSE << x + 65536, 65535, 65535, 65535 >>

----------------------------------------------------------------------------
(* Mesh construction and alignment, lines 143-202 *)

NoMesh == [built |-> FALSE, positions |-> << >>, indices |-> << >>, ops |-> << >>]

NoExtents == [set |-> FALSE]

None == [some |-> FALSE]

Some(rot) == [some |-> TRUE, rot |-> rot]

\* MeshBuilder::new().with_indices(..).with_positions(..).build()
BuildMesh(vertices, indices, valid) ==
    IF valid
    THEN [ok |-> TRUE,
          mesh |-> [built |-> TRUE, positions |-> vertices, indices |-> indices,
                    ops |-> << >>]]
    ELSE [ok |-> FALSE, err |-> Err("MeshError", << "MeshError" >>)]

\* a.invert().ok_or(P3DError::MathError)
Invert(invertible) ==
    IF invertible THEN [ok |-> TRUE]
                  ELSE [ok |-> FALSE, err |-> Err("MathError", << >>)]

\* a variant that rotates before it translates
PrincipalAlign_Swapped(m) ==
    [m EXCEPT !.ops = @ \o << "apply_transformation(tr)", "translate(shift)" >>]

\* mesh.translate(shift); mesh.apply_transformation(tr)
PrincipalAlign(m) ==
    [m EXCEPT !.ops = @ \o << "translate(shift)", "apply_transformation(tr)" >>]

\* if let Some(rot) = trans { mesh.apply_transformation(from_axis_angle(..)) }
AuxRotate(m, t) ==
    IF t.some THEN [m EXCEPT !.ops = Append(@, "apply_transformation(axis_angle)")]
              ELSE m

\* the extents extreme_coordinates can give, with v_min <= v_max on each axis
ZValues == {0 - 3, 0, 4}

ExtentChoices ==
    { [xmin |-> 0 - 1, xmax |-> x, ymin |-> 0 - 2, ymax |-> 2, zmin |-> z[1], zmax |-> z[2]] :
        x \in {1, 3}, z \in { zz \in ZValues \X ZValues : zz[1] <= zz[2] } }

\* (v_min, v_max) = mesh.extreme_coordinates(): the mesh as it is at the call
ExtremeCoordinates(m, e) ==
    [set |-> TRUE, of |-> m.ops,
     xmin |-> e.xmin, xmax |-> e.xmax, ymin |-> e.ymin, ymax |-> e.ymax,
     zmin |-> e.zmin, zmax |-> e.zmax]

----------------------------------------------------------------------------
(* Slicing, lines 204-217 *)

\* step = (v_max.z - v_min.z) / (1.0 + n_sections as f64)
Step(e, n_sections) ==
    RatDiv(RatSub(Rat(e.zmax), Rat(e.zmin)), RatAdd(Rat(1), Rat(n_sections)))

\* a variant whose first level is v_min.z
ZSect_FromZero(e, k, st) == RatAdd(Rat(e.zmin), RatMul(Rat(k), st))

\* z_sect = v_min.z + (n as f64 + 1.0) * step
ZSect(e, k, st) == RatAdd(Rat(e.zmin), RatMul(RatAdd(Rat(k), Rat(1)), st))

\* a variant that pairs the tolerant slicer with Grid2dV3
Section_V3(al, z_sect, st) ==
    IF al = "Grid2dV3"
    THEN [slicer |-> "intersect_2", z |-> z_sect, eps |-> RatMul(st, << 1, 100 >>)]
    ELSE [slicer |-> "intersect", z |-> z_sect, eps |-> Rat(0)]

\* the slicer call of one level
Section(al, z_sect, st) ==
    IF al = "Grid2dV3a"
    THEN [slicer |-> "intersect_2", z |-> z_sect, eps |-> RatMul(st, << 1, 100 >>)]
    ELSE [slicer |-> "intersect", z |-> z_sect, eps |-> Rat(0)]

\* get_contour(sect): a contour of len points, made from sect
GetContour(sect, len) == [from |-> sect, len |-> len]

\* a variant that keeps empty contours
PushContour_Always(cs, cntr) == Append(cs, cntr)

\* if cntr.len() > 0 { centers.push(cntr) }
PushContour(cs, cntr) == IF cntr.len > 0 THEN Append(cs, cntr) ELSE cs

----------------------------------------------------------------------------
(* Scoring, lines 218-227 *)

Rect(e) == << e.xmin, e.xmax, e.ymin, e.ymax >>

Scorers == {"find_top_std", "find_top_std_2", "find_top_std_3", "find_top_std_4"}

\* the scorer call the match on algo makes; its value is the call's result
Dispatch(al, cs, d, n_sections, grid_size, rect) ==
    CASE al = "Grid2dV2" ->
            [fn |-> "find_top_std_2", centers |-> cs, depth |-> d,
             n_sections |-> AsUsize(n_sections), grid_size |-> AsUsize(grid_size),
             rect |-> rect]
      [] al = "Grid2dV3" ->
            [fn |-> "find_top_std_3", centers |-> cs, depth |-> d,
             n_sections |-> AsUsize(n_sections), grid_size |-> AsUsize(grid_size),
             rect |-> rect]
      [] al = "Grid2dV3a" ->
            [fn |-> "find_top_std_4", centers |-> cs, depth |-> d,
             n_sections |-> AsUsize(n_sections), grid_size |-> AsUsize(grid_size),
             rect |-> rect]
      [] OTHER ->
            [fn |-> "find_top_std", centers |-> cs, depth |-> d,
             grid_size |-> grid_size, rect |-> rect]

----------------------------------------------------------------------------
(* The steps of p3d_process_n *)

Load ==
    /\ pc = "load"
    /\ calls' = Append(calls, "load")
    /\ LET r == LoadGeometry(file_type, input)
       IN  IF r.ok
           THEN /\ model_vertices' = r.vertices
                /\ model_indices' = r.indices
                /\ pc' = "build"
                /\ result' = result
           ELSE /\ result' = r.err
                /\ pc' = "done"
                /\ UNCHANGED << model_vertices, model_indices >>
    /\ UNCHANGED << params, mesh, ext, step, n, centers, sects >>

Build ==
    /\ pc = "build"
    /\ calls' = Append(calls, "build")
    /\ \E valid \in BOOLEAN :
        LET r == BuildMesh(model_vertices, model_indices, valid)
        IN  IF r.ok
            THEN /\ mesh' = r.mesh
                 /\ pc' = "align"
                 /\ result' = result
            ELSE /\ result' = r.err
                 /\ pc' = "done"
                 /\ mesh' = mesh
    /\ model_vertices' = << >>
    /\ model_indices' = << >>
    /\ UNCHANGED << params, ext, step, n, centers, sects >>

\* a variant that translates the mesh before it checks the inverse
Align_TranslateFirst ==
    /\ pc = "align"
    /\ calls' = calls \o << "principal_inertia_transform", "translate", "invert" >>
    /\ mesh' = [mesh EXCEPT !.ops = Append(@, "translate(shift)")]
    /\ \E invertible \in BOOLEAN :
        LET b == Invert(invertible)
        IN  IF b.ok
            THEN /\ pc' = "transform"
                 /\ result' = result
            ELSE /\ result' = b.err
                 /\ pc' = "done"
    /\ UNCHANGED << params, model_vertices, model_indices, ext, step, n,
                    centers, sects >>

Align ==
    /\ pc = "align"
    /\ calls' = calls \o << "principal_inertia_transform", "invert" >>
    /\ \E invertible \in BOOLEAN :
        LET b == Invert(invertible)
        IN  IF b.ok
            THEN /\ pc' = "transform"
                 /\ result' = result
            ELSE /\ result' = b.err
                 /\ pc' = "done"
    /\ UNCHANGED << params, model_vertices, model_indices, mesh, ext, step, n,
                    centers, sects >>

Transform ==
    /\ pc = "transform"
    /\ calls' = calls \o << "translate", "apply_transformation" >>
    /\ mesh' = PrincipalAlign(mesh)
    /\ pc' = "rotate"
    /\ UNCHANGED << params, model_vertices, model_indices, ext, step, n, centers,
                    sects, result >>

Rotate ==
    /\ pc = "rotate"
    /\ calls' = IF trans.some THEN Append(calls, "apply_transformation") ELSE calls
    /\ mesh' = AuxRotate(mesh, trans)
    /\ pc' = "extents"
    /\ UNCHANGED << params, model_vertices, model_indices, ext, step, n, centers,
                    sects, result >>

Extents ==
    /\ pc = "extents"
    /\ calls' = Append(calls, "extreme_coordinates")
    /\ \E e \in ExtentChoices :
        /\ ext' = ExtremeCoordinates(mesh, e)
        /\ step' = Step(e, par2)
    /\ centers' = << >>
    /\ n' = 0
    /\ pc' = "slice"
    /\ UNCHANGED << params, model_vertices, model_indices, mesh, sects, result >>

Slice ==
    /\ pc = "slice"
    /\ n < par2
    /\ \E len \in 0..MaxContourLen :
        LET z_sect == ZSect(ext, n, step)
            sect   == Section(algo, z_sect, step)
            cntr   == GetContour(sect, len)
        IN  /\ centers' = PushContour(centers, cntr)
            /\ sects' = Append(sects, [n |-> n, sect |-> sect, cntr |-> cntr])
            /\ calls' = calls \o << sect.slicer, "get_contour" >>
    /\ n' = n + 1
    /\ UNCHANGED << params, pc, model_vertices, model_indices, mesh, ext, step,
                    result >>

Score ==
    /\ pc = "slice"
    /\ ~(n < par2)
    /\ LET res == Dispatch(algo, centers, depth, par2, par1, Rect(ext))
       IN  /\ calls' = Append(calls, res.fn)
           /\ result' = Ok(res)
    /\ pc' = "done"
    /\ UNCHANGED << params, model_vertices, model_indices, mesh, ext, step, n,
                    centers, sects >>

Next == Load \/ Build \/ Align \/ Transform \/ Rotate \/ Extents \/ Slice \/ Score

----------------------------------------------------------------------------
(* The calls checked *)

SectionCounts == (0 - MaxNegSections)..MaxSections

\* p3d_process passes depth 10; p3d_process_n takes any
Depths == {DefaultDepth, 1}

GridSizes == {20}

Rotations == {None, Some(<< 0, 0, 255, 64 >>)}

Locals ==
    /\ pc = "load"
    /\ model_vertices = << >>
    /\ model_indices = << >>
    /\ mesh = NoMesh
    /\ ext = NoExtents
    /\ step = Rat(0)
    /\ n = 0
    /\ centers = << >>
    /\ sects = << >>
    /\ calls = << >>
    /\ result = Pending

\* every algorithm, section count and rotation, on a few inputs
Init ==
    /\ file_type \in InputFileType
    /\ algo \in AlgoType
    /\ depth \in Depths
    /\ par1 \in GridSizes
    /\ par2 \in SectionCounts
    /\ trans \in Rotations
    /\ input \in {Garbage, ObjFile} \cup GltfFiles(1)
    /\ Locals

Spec == Init /\ [][Next]_vars

\* every glTF document of up to MaxPrims primitives, on one choice of the rest
InitLoad ==
    /\ file_type \in InputFileType
    /\ algo = "Grid2d"
    /\ depth = DefaultDepth
    /\ par1 \in GridSizes
    /\ par2 = 1
    /\ trans = None
    /\ input \in {Garbage, ObjFile} \cup GltfFiles(MaxPrims)
    /\ Locals

SpecLoad == InitLoad /\ [][Next]_vars

----------------------------------------------------------------------------
(* Helpers of the properties *)

Called(names) == { i \in DOMAIN calls : calls[i] \in names }

Unparsable ==
    \/ file_type = "Obj" /\ input.kind # "obj"
    \/ file_type \in {"Gltf", "Glb"} /\ input.kind # "gltf"

\* the primitives of a document in scan order, as << mesh, primitive >> pairs
Places(meshes) ==
    { mp \in (DOMAIN meshes) \X (1..MaxPrims + 1) : mp[2] \in DOMAIN meshes[mp[1]] }

Before(a, b) == a[1] < b[1] \/ (a[1] = b[1] /\ a[2] < b[2])

Complete(prim) == prim.positions # << >> /\ prim.indices # << >>

----------------------------------------------------------------------------
(* C1: with the algorithm tag Spectr, a run that got past alignment ends   *)
(* in an unsupported-variant error: it does not return Ok and no scorer    *)
(* is called.                                                              *)
C1_SpectrUnsupported ==
    (algo = "Spectr" /\ ext.set) =>
        /\ result.tag # "Ok"
        /\ Called(Scorers) = {}
        /\ pc = "done" => (result.tag = "Err" /\ result.error = "UnsupportedVariant")

(* C2: for Gltf and Glb, the vertices and the indices handed to the mesh   *)
(* builder are those of one primitive, the first in scan order that has    *)
(* both positions and indices.                                             *)
C2_SamePrimitive ==
    (pc = "build" /\ file_type \in {"Gltf", "Glb"}) =>
        \E mp \in Places(input.meshes) :
            LET prim == input.meshes[mp[1]][mp[2]]
            IN  /\ Complete(prim)
                /\ \A o \in Places(input.meshes) :
                       Before(o, mp) => ~Complete(input.meshes[o[1]][o[2]])
                /\ model_vertices = Flatten(prim.positions)
                /\ model_indices = prim.indices

(* C3: input that does not parse under the declared format ends in an      *)
(* error of the format's kind; the run never returns Ok and no stage       *)
(* after the load is entered.                                              *)
C3_MalformedRejected ==
    Unparsable =>
        /\ result.tag # "Ok"
        /\ pc \in {"load", "done"}
        /\ \A i \in DOMAIN calls : calls[i] = "load"
        /\ ~mesh.built
        /\ pc = "done" =>
              /\ result.tag = "Err"
              /\ result.error = (IF file_type = "Obj" THEN "InvalidObject" ELSE "GltfError")

C3_Witness ==
    /\ pc = "done"
    /\ input = Garbage
    /\ file_type = "Glb"
    /\ result.tag = "Err"

(* C4: a glTF/GLB document that parses and whose scan collects no          *)
(* positions or no indices ends in a GltfError whose message holds         *)
(* "No valid geometry"; the mesh builder and the later stages never run.   *)
C4_NoGeometry ==
    ( /\ file_type \in {"Gltf", "Glb"}
      /\ input.kind = "gltf"
      /\ LET c == CollectGeometry(input.meshes)
         IN  c.positions = << >> \/ c.indices = << >> ) =>
        /\ result.tag # "Ok"
        /\ pc \in {"load", "done"}
        /\ \A i \in DOMAIN calls : calls[i] = "load"
        /\ ~mesh.built
        /\ pc = "done" =>
              /\ result.tag = "Err"
              /\ result.error = "GltfError"
              /\ Contains(result.msg, NoValidGeometry)

C4_Witness ==
    /\ pc = "done"
    /\ file_type = "Glb"
    /\ input.kind = "gltf"
    /\ Len(input.meshes) = 2
    /\ CollectGeometry(input.meshes).positions # << >>
    /\ CollectGeometry(input.meshes).indices = << >>
    /\ result.tag = "Err"

----------------------------------------------------------------------------
(* Stages of the pipeline, by the calls that belong to them *)

Stage(c) ==
    CASE c = "load" -> 1
      [] c = "build" -> 2
      [] c \in {"principal_inertia_transform", "invert", "translate",
                "apply_transformation", "extreme_coordinates"} -> 3
      [] c \in {"intersect", "intersect_2", "get_contour"} -> 4
      [] c \in Scorers -> 5

\* the call at which each error kind is raised
FailsAt(e) ==
    CASE e \in {"InvalidObject", "GltfError"} -> "load"
      [] e = "MeshError" -> "build"
      [] e = "MathError" -> "invert"

(* C5: the stages run in the order load, mesh construction, alignment,     *)
(* slicing, scoring; an error ends the run at the stage that raised it,    *)
(* with nothing called after it; on MathError the mesh has been neither    *)
(* translated nor transformed, no slice was taken and no scorer called.    *)
C5_FailFast ==
    /\ \A i, j \in DOMAIN calls : i < j => Stage(calls[i]) <= Stage(calls[j])
    /\ \A i, j \in DOMAIN calls :
           (i < j /\ Stage(calls[i]) = Stage(calls[j])) => Stage(calls[i]) \in {3, 4}
    /\ result.tag = "Err" =>
           /\ pc = "done"
           /\ result.error \in P3DError
           /\ calls # << >>
           /\ calls[Len(calls)] = FailsAt(result.error)
           /\ ~ENABLED Next
    /\ (result.tag = "Err" /\ result.error = "MathError") =>
           /\ mesh.built
           /\ mesh.ops = << >>
           /\ ~ext.set
           /\ sects = << >>
           /\ centers = << >>
           /\ Called({"translate", "apply_transformation", "extreme_coordinates",
                      "intersect", "intersect_2", "get_contour"} \cup Scorers) = {}
    /\ result.tag = "Ok" => (pc = "done" /\ Stage(calls[Len(calls)]) = 5)
    /\ pc = "done" => result.tag \in {"Ok", "Err"}

C5_Witness ==
    /\ pc = "done"
    /\ result.tag = "Err"
    /\ result.error = "MathError"
    /\ Len(calls) = 4

(* C6: for n_sections = N >= 1 and z_min < z_max the slicer is called      *)
(* exactly N times, call i (from 0) at z_min + (i+1)*(z_max - z_min)/(N+1);*)
(* the levels increase strictly and lie strictly between z_min and z_max.  *)
C6_Levels ==
    (par2 >= 1 /\ ext.set /\ ext.zmin < ext.zmax) =>
        /\ Len(sects) <= par2
        /\ pc = "done" => Len(sects) = par2
        /\ Cardinality(Called({"intersect", "intersect_2"})) = Len(sects)
        /\ \A i \in DOMAIN sects :
            /\ sects[i].n = i - 1
            /\ RatEq(sects[i].sect.z,
                     << ext.zmin * (par2 + 1) + i * (ext.zmax - ext.zmin), par2 + 1 >>)
            /\ RatLess(Rat(ext.zmin), sects[i].sect.z)
            /\ RatLess(sects[i].sect.z, Rat(ext.zmax))
        /\ \A i, j \in DOMAIN sects :
            i < j => RatLess(sects[i].sect.z, sects[j].sect.z)

C6_Witness ==
    /\ pc = "done"
    /\ result.tag = "Ok"
    /\ par2 >= 2
    /\ ext.zmin < ext.zmax
    /\ Len(sects) = par2

\* the contours of the slicer calls so far, in call order
RECURSIVE Contours(_)
Contours(ss) == IF ss = << >> THEN << >> ELSE << Head(ss).cntr >> \o Contours(Tail(ss))

NonEmpty(cntr) == cntr.len > 0

C8_SlicerPairing ==
    /\ \A i \in DOMAIN sects :
        /\ sects[i].sect.slicer \in {"intersect", "intersect_2"}
        /\ (sects[i].sect.slicer = "intersect_2") <=> (algo = "Grid2dV3a")
        /\ sects[i].sect.slicer = "intersect_2" =>
               RatEq(RatMul(sects[i].sect.eps, Rat(100)), step)
    /\ \A i \in DOMAIN calls :
        /\ calls[i] = "intersect_2" => algo = "Grid2dV3a"
        /\ calls[i] = "intersect" => algo # "Grid2dV3a"
    /\ result.tag = "Ok" =>
        /\ (result.value.fn = "find_top_std_4") <=> (algo = "Grid2dV3a")
        /\ \A k \in DOMAIN result.value.centers :
               (result.value.centers[k].from.slicer = "intersect_2")
                   <=> (result.value.fn = "find_top_std_4")

C8_Witness ==
    /\ pc = "done"
    /\ result.tag = "Ok"
    /\ algo = "Grid2dV3a"
    /\ ext.zmin < ext.zmax
    /\ Len(result.value.centers) >= 1

----------------------------------------------------------------------------
\* the mutations of the mesh a run makes, in order
Mutations(t) ==
    << "translate(shift)", "apply_transformation(tr)" >>
        \o (IF t.some THEN << "apply_transformation(axis_angle)" >> ELSE << >>)

(* C9: the mesh is translated, then rotated to its principal axes, then    *)
(* rotated by the auxiliary rotation exactly when one is given; the        *)
(* extents are taken once, after all of these; the slice levels and the    *)
(* scorer's rectangle come from those extents, and the mesh is not         *)
(* changed after the extents are taken.                                    *)
C9_ExtentsAfterRotations ==
    /\ ext.set =>
        /\ ext.of = Mutations(trans)
        /\ mesh.ops = ext.of
        /\ Cardinality(Called({"extreme_coordinates"})) = 1
        /\ \A i \in Called({"translate", "apply_transformation"}) :
               \A j \in Called({"extreme_coordinates"}) : i < j
        /\ \A i \in DOMAIN sects :
               RatEq(sects[i].sect.z,
                     << ext.zmin * (par2 + 1) + i * (ext.zmax - ext.zmin), par2 + 1 >>)
    /\ ~ext.set => Called({"extreme_coordinates"}) = {}
    /\ result.tag = "Ok" =>
        /\ ext.set
        /\ mesh.ops = Mutations(trans)
        /\ result.value.rect = << ext.xmin, ext.xmax, ext.ymin, ext.ymax >>

C9_Witness ==
    /\ pc = "done"
    /\ result.tag = "Ok"
    /\ trans.some
    /\ Len(mesh.ops) = 3
    /\ Len(sects) >= 1

\* limbs plus a carry: the sum's limbs, then the carry out
RECURSIVE AddCarry(_, _)
AddCarry(limbs, carry) ==
    IF limbs = << >> THEN << carry >>
    ELSE << (Head(limbs) + carry) % 65536 >>
             \o AddCarry(Tail(limbs), (Head(limbs) + carry) \div 65536)

(* C10: for n_sections <= 0, once alignment has passed, no slicer call is  *)
(* made, the scorer is called with an empty contour list and the run       *)
(* returns Ok with its result; a negative n_sections reaches the V2, V3    *)
(* and V3a scorers as 2^64 + n_sections, not as 0.                         *)
C10_NonPositiveSections ==
    (par2 <= 0 /\ ext.set) =>
        /\ sects = << >>
        /\ centers = << >>
        /\ Called({"intersect", "intersect_2", "get_contour"}) = {}
        /\ pc = "slice" => (ENABLED Score /\ ~ENABLED Slice)
        /\ pc = "done" =>
            /\ result.tag = "Ok"
            /\ result.value.fn \in Scorers
            /\ calls[Len(calls)] = result.value.fn
            /\ result.value.centers = << >>
            /\ (par2 < 0 /\ result.value.fn # "find_top_std") =>
                  /\ AddCarry(result.value.n_sections, 0 - par2) = << 0, 0, 0, 0, 1 >>
                  /\ result.value.n_sections # << 0, 0, 0, 0 >>
            /\ (par2 = 0 /\ result.value.fn # "find_top_std") =>
                  result.value.n_sections = << 0, 0, 0, 0 >>

C10_Witness ==
    /\ pc = "done"
    /\ result.tag = "Ok"
    /\ par2 < 0
    /\ algo = "Grid2dV3"
    /\ result.value.n_sections = << 65536 + par2, 65535, 65535, 65535 >>

====
